---- MODULE Spec2Model ----
(***************************************************************************)
(* Model of the task-side session hook useBrixelTask (src/src/             *)
(* useBrixelTask.ts): the React state it owns, the refs, the message       *)
(* listener and the operations it hands to the embedding application.      *)
(*                                                                         *)
(* React semantics that the model keeps:                                   *)
(*  - useState setters update the hook's state store; the functions the    *)
(*    hook returns (complete, cancel, setHeight, log) are closures made    *)
(*    by a render and read the runId of THAT render (useCallback deps      *)
(*    [runId, ...]).  A state change reaches them only with the next       *)
(*    render (action Render).  The variables runId, inputs, ... are the    *)
(*    store; renderedRunId is the runId the current closures captured.     *)
(*  - useRef values (hasCompleted, parentWindow, isEmbedded) are read and  *)
(*    written immediately.                                                 *)
(*  - JavaScript values are tagged records: Undefined, Null, Str(chars),   *)
(*    Num(n), Obj(f).  Strings are sequences of characters so that         *)
(*    startsWith is computed, not assumed.                                 *)
(***************************************************************************)
EXTENDS Integers, Sequences, FiniteSets, TLC

\* ------------------------------------------------------------------ bounds
\* number of distinct run identifiers the host may send
MaxRuns == 2
\* input property values range over 1..MaxVal
MaxVal == 2

\* ------------------------------------------------------- JavaScript values
Undefined == [k |-> "undefined"]
Null == [k |-> "null"]
Str(chars) == [k |-> "string", v |-> chars]
Num(n) == [k |-> "number", v |-> n]
Obj(f) == [k |-> "object", f |-> f]

\* the object with no own property, {}
EmptyProps == [x \in {} |-> 0]

\* JavaScript truthiness (ToBoolean) of the values above
Truthy(v) ==
    CASE v.k = "undefined" -> FALSE
      [] v.k = "null" -> FALSE
      [] v.k = "string" -> v.v # <<>>
      [] v.k = "number" -> v.v # 0
      [] OTHER -> TRUE

\* typeof v
TypeOf(v) ==
    CASE v.k = "undefined" -> "undefined"
      [] v.k = "string" -> "string"
      [] v.k = "number" -> "number"
      [] OTHER -> "object"

\* String.prototype.startsWith
startsWith(s, prefix) ==
    /\ Len(s) >= Len(prefix)
    /\ SubSeq(s, 1, Len(prefix)) = prefix

\* own enumerable properties copied by an object spread ({...v})
Spread(v) == IF v.k = "object" /\ "f" \in DOMAIN v THEN v.f ELSE EmptyProps

\* property read o.name (undefined when absent)
Get(o, name) == IF name \in DOMAIN o THEN o[name] ELSE Undefined

\* --------------------------------------------------------- protocol strings
BRIXEL_ == <<"B", "R", "I", "X", "E", "L", "_">>
T_INIT == BRIXEL_ \o <<"I", "N", "I", "T">>
T_UPDATE_INPUTS == BRIXEL_ \o <<"U", "P", "D", "A", "T", "E", "_", "I", "N", "P", "U", "T", "S">>
T_DESTROY == BRIXEL_ \o <<"D", "E", "S", "T", "R", "O", "Y">>
T_READY == BRIXEL_ \o <<"R", "E", "A", "D", "Y">>
T_COMPLETE == BRIXEL_ \o <<"C", "O", "M", "P", "L", "E", "T", "E">>
T_CANCEL == BRIXEL_ \o <<"C", "A", "N", "C", "E", "L">>
T_RESIZE == BRIXEL_ \o <<"R", "E", "S", "I", "Z", "E">>
T_LOG == BRIXEL_ \o <<"L", "O", "G">>
T_ERROR == BRIXEL_ \o <<"E", "R", "R", "O", "R">>
T_UPDATE_THEME == BRIXEL_ \o <<"U", "P", "D", "A", "T", "E", "_", "T", "H", "E", "M", "E">>
T_UPDATE_LOCALE == BRIXEL_ \o <<"U", "P", "D", "A", "T", "E", "_", "L", "O", "C", "A", "L", "E">>
SDK_VERSION == Str(<<"1", ".", "0", ".", "0">>)

\* -------------------------------------------------------- input universes
Digit == <<"1", "2", "3", "4", "5">>
\* the run identifiers a host may use: "run-1", "run-2", ...
RunIds == {Str(<<"r", "u", "n", "-", Digit[i]>>) : i \in 1..MaxRuns}
\* the (context, renderMode) pairs a host sends: a display task in the light
\* theme, an interaction task in the dark theme
Launches ==
    {[context |-> Obj([theme |-> Str(<<"light">>)]), renderMode |-> Str(<<"display">>)],
     [context |-> Obj([theme |-> Str(<<"dark">>)]), renderMode |-> Str(<<"interaction">>)]}
\* inputs a host sends with INIT: none, or {a:1,b:2}
InitInputs == {Null, Obj([a |-> 1, b |-> 2])}
\* partial inputs a host sends with UPDATE_INPUTS: {} and {b: v}
PartialInputs == {Obj(EmptyProps)} \cup {Obj([b |-> v]) : v \in 1..MaxVal}
Outputs == {Str(<<"A">>), Str(<<"B">>)}
Reasons == {Undefined, Str(<<"user closed">>)}
Heights == {Str(<<"a", "u", "t", "o">>), Num(120)}
Levels == {Str(<<"info">>)}

\* payloads of a BRIXEL_INIT as types.ts declares them (InitMessage)
InitPayloads ==
    {[k |-> "object", runId |-> r, inputs |-> i, context |-> l.context,
      renderMode |-> l.renderMode] :
        r \in RunIds, i \in InitInputs, l \in Launches}
\* payloads of a BRIXEL_UPDATE_INPUTS (UpdateInputsMessage)
UpdatePayloads ==
    {[k |-> "object", runId |-> r, inputs |-> i] : r \in RunIds, i \in PartialInputs}
\* payloads of a BRIXEL_DESTROY (DestroyMessage)
DestroyPayloads == {[k |-> "object", runId |-> r] : r \in RunIds}
\* payloads that do not have the declared shape: absent, null, {}
MalformedPayloads == {Undefined, Null, [k |-> "object"]}

Envelope(type, payload) == [k |-> "object", type |-> type, payload |-> payload]

\* the typed messages of the host -> task direction, well formed or not
CatalogMessages ==
    {Envelope(Str(T_INIT), p) : p \in InitPayloads \cup MalformedPayloads}
    \cup {Envelope(Str(T_UPDATE_INPUTS), p) : p \in UpdatePayloads \cup MalformedPayloads}
    \cup {Envelope(Str(T_DESTROY), p) : p \in DestroyPayloads \cup MalformedPayloads}

\* prefixed types the handler has no case for: the task -> host types (the
\* hook's own envelopes come back to it in standalone mode), the mock host's
\* extension messages, and a prefixed type in the wrong case
UncataloguedTypes ==
    {T_READY, T_COMPLETE, T_CANCEL, T_RESIZE, T_LOG, T_ERROR, T_UPDATE_THEME,
     T_UPDATE_LOCALE, BRIXEL_ \o <<"i", "n", "i", "t">>, BRIXEL_}
\* strings that do not start with the reserved prefix
UnprefixedTypes ==
    {<<"b", "r", "i", "x", "e", "l", "_", "i", "n", "i", "t">>,
     <<"B", "R", "I", "X", "E", "L">>,
     <<"w", "e", "b", "p", "a", "c", "k", "O", "k">>}
\* type values that are not a string, or are absent / empty
NonStringTypes == {Undefined, Null, Str(<<>>), Num(0), Num(7)}

\* a payload some unrelated message might carry
AnyPayload == [k |-> "object", runId |-> CHOOSE r \in RunIds : TRUE]

OtherMessages ==
    {Envelope(Str(t), AnyPayload) : t \in UncataloguedTypes \cup UnprefixedTypes}
    \cup {Envelope(t, AnyPayload) : t \in NonStringTypes}
    \cup {Undefined, Null, Str(T_INIT), Obj(EmptyProps)}

\* launches of a host that passes credentials in the context
\* (BrixelContext.apiToken, .conversationId): a token with a conversation id,
\* and the token the host rotated to
CredentialLaunches ==
    {[context |-> Obj([theme |-> Str(<<"light">>), apiToken |-> Str(<<"tok-1">>),
                       conversationId |-> Str(<<"conv-1">>)]),
      renderMode |-> Str(<<"interaction">>)],
     [context |-> Obj([theme |-> Str(<<"light">>), apiToken |-> Str(<<"tok-2">>)]),
      renderMode |-> Str(<<"interaction">>)]}
\* what such a host sends during a session: INIT for a Run, an update, DESTROY
SessionMessages ==
    {Envelope(Str(T_INIT),
              [k |-> "object", runId |-> r, inputs |-> Null, context |-> l.context,
               renderMode |-> l.renderMode]) : r \in RunIds, l \in CredentialLaunches}
    \cup {Envelope(Str(T_UPDATE_INPUTS),
                   [k |-> "object", runId |-> r, inputs |-> Obj([b |-> 1])]) : r \in RunIds}
    \cup {Envelope(Str(T_DESTROY), [k |-> "object", runId |-> r]) : r \in RunIds}

\* everything the window may deliver to the listener (event.data)
Messages == CatalogMessages \cup OtherMessages

\* ------------------------------------------------------------------ state
VARIABLES
    inputs,         \* useState: inputs
    context,        \* useState: context
    status,         \* useState: status
    renderMode,     \* useState: renderMode
    runId,          \* useState: runId
    hasCompleted,   \* useRef: hasCompleted.current
    isEmbedded,     \* useRef: isEmbedded.current
    parentWindow,   \* useRef: parentWindow.current ("null", "parent", "self")
    options,        \* the options the component passes to the hook
    optTargetOrigin,\* options.targetOrigin as the component passes it (Undefined: not passed)
    destOrigin,     \* the origin of the window parentWindow.current refers to
    renderedRunId,  \* the runId captured by the closures of the latest render
    boundConfig,    \* the config bound into the executeTask of the latest render
    observers,      \* how many ResizeObservers are observing document.body
    phase,          \* "rendered" (effects not yet run), "mounted", "unmounted"
    listeners,      \* how many handleMessage listeners are registered on the window
    lastOp,         \* the step that produced this state
    posted,         \* what that step passed to postMessage: destination, type, runId
    called,         \* the application callbacks that step invoked, by name
    raised,         \* that step ended by throwing
    initSeen,       \* history: a BRIXEL_INIT has been adopted
    runTerminals,   \* history: types of the COMPLETE/CANCEL envelopes posted since the last INIT
    reinit,         \* history: the current Run replaced a finished Run of another
                    \* runId and has not finished itself
    params,         \* executeTask: the params of the call (None: no call)
    hostname,       \* executeTask: window.location.hostname (NoWindow: no window)
    pc,             \* executeTask: "idle", "called", "pending" (await fetch), "resolved"
    request,        \* executeTask: what was passed to fetch (None: fetch not called)
    response,       \* executeTask: the response fetch resolved with (None: none)
    result,         \* executeTask: the value the promise resolved with (None: not yet)
    fetches         \* executeTask: how many times fetch was called

\* the state of the hook
hookVars ==
    <<inputs, context, status, renderMode, runId, hasCompleted, isEmbedded,
      parentWindow, options, optTargetOrigin, destOrigin, renderedRunId,
      boundConfig, observers, phase, listeners, lastOp, posted,
      called, raised, initSeen, runTerminals, reinit>>
\* a handleMessage listener is registered on the window
listening == listeners > 0

\* the state of one executeTask call
execVars == <<params, hostname, pc, request, response, result, fetches>>

vars == <<hookVars, execVars>>

\* the session state the hook exposes or guards with, as one record
Session ==
    [inputs |-> inputs, context |-> context, status |-> status,
     renderMode |-> renderMode, runId |-> runId, hasCompleted |-> hasCompleted]
sessionVars == <<inputs, context, status, renderMode, runId, hasCompleted>>
\* what no operation and no message changes
fixed == <<isEmbedded, options, optTargetOrigin, destOrigin>>
\* what the latest render and its effects left
rendered == <<renderedRunId, boundConfig, observers>>
\* the history variables
history == <<initSeen, runTerminals, reinit>>

\* the callbacks are optional (onInputsUpdate?.(), onDestroy?.()): a component
\* registers both or neither (each handler reads only its own callback)
OptionSets == {[onInputsUpdate |-> b, onDestroy |-> b] : b \in BOOLEAN}

\* origins: the host page the task is meant for, and some other page
HOST_ORIGIN == Str(<<"https://app.brixel.ai">>)
OTHER_ORIGIN == Str(<<"https://other.example">>)
ANY_ORIGIN == Str(<<"*">>)

\* line 63: const { targetOrigin = "*", ... } = options
targetOrigin == IF optTargetOrigin = Undefined THEN ANY_ORIGIN ELSE optTargetOrigin

\* lines 270-274: the config the hook binds into executeTask, read from the
\* context with optional chaining (context?.apiToken, ...)
configOf(ctx) ==
    [apiToken |-> IF TypeOf(ctx) = "object" THEN Get(Spread(ctx), "apiToken") ELSE Undefined,
     conversationId |->
        IF TypeOf(ctx) = "object" THEN Get(Spread(ctx), "conversationId") ELSE Undefined,
     apiBaseUrl |-> IF TypeOf(ctx) = "object" THEN Get(Spread(ctx), "apiBaseUrl") ELSE Undefined]

\* "not there": no call, no request, no response, no result
None == [k |-> "none"]

\* no executeTask call is under way
ExecIdle ==
    /\ params = None
    /\ hostname = None
    /\ pc = "idle"
    /\ request = None
    /\ response = None
    /\ result = None
    /\ fetches = 0

\* the hook after its first render, before its effects ran, whatever
\* targetOrigin the component passes and whatever page the destination is
HookStart ==
    /\ inputs = Null
    /\ context = Null
    /\ status = "initializing"
    /\ renderMode = Null
    /\ runId = Null
    /\ hasCompleted = FALSE
    /\ isEmbedded \in BOOLEAN
    /\ parentWindow = "null"
    /\ options \in OptionSets
    /\ renderedRunId = Null
    /\ boundConfig = configOf(Null)
    /\ observers = 0
    /\ phase = "rendered"
    /\ listeners = 0
    /\ lastOp = "render"
    /\ posted = <<>>
    /\ called = <<>>
    /\ raised = FALSE
    /\ initSeen = FALSE
    /\ runTerminals = <<>>
    /\ reinit = FALSE

\* a component that passes no targetOrigin, in or beside the host page
HookInit ==
    /\ HookStart
    /\ optTargetOrigin = Undefined
    /\ destOrigin = HOST_ORIGIN

Init == HookInit /\ ExecIdle

\* ---------------------------------------------------------------- effects
\* What one run of a handler or operation does, as a value: the session it
\* leaves, the envelopes it posted, the callbacks it invoked, whether it threw.
Effect(op, sess, p, c, r) ==
    [op |-> op, session |-> sess, posted |-> p, called |-> c, raised |-> r]

\* returns without writing, posting or calling anything
Nothing(op) == Effect(op, Session, <<>>, <<>>, FALSE)

\* a variant of postToParent that posts without restricting the origin
postToParent_anyOrigin(win, message) ==
    IF win # "null"
    THEN <<[to |-> win, message |-> message, targetOrigin |-> ANY_ORIGIN]>>
    ELSE <<>>

\* postToParent (lines 86-96): the envelopes handed to win.postMessage, each
\* with the targetOrigin passed as its second argument
postToParent(win, message) ==
    IF win # "null"
    THEN <<[to |-> win, message |-> message, targetOrigin |-> targetOrigin]>>
    ELSE <<>>

\* the types of the envelopes in p
PostedTypes(p) == [i \in DOMAIN p |-> p[i].message.type.v]

\* what the state keeps of the envelopes a step posted
PostedSummary(p) ==
    [i \in DOMAIN p |->
        [to |-> p[i].to, type |-> p[i].message.type.v,
         runId |-> Get(p[i].message.payload, "runId"),
         targetOrigin |-> p[i].targetOrigin]]

\* window.postMessage(message, targetOrigin) dispatches the message event only
\* if targetOrigin is "*" or is the origin of the destination window
Delivered(p) == p.targetOrigin = ANY_ORIGIN \/ p.targetOrigin = destOrigin

\* the auto-resize effect body (lines 250-259): how many observers a run of
\* the effect that captured runId rid creates, and its cleanup disconnects
observed(rid) == IF ~Truthy(rid) \/ ~isEmbedded THEN 0 ELSE 1

\* a variant of the step in which handling DESTROY aborts a pending request
Commit_aborting(e) ==
    /\ inputs' = e.session.inputs
    /\ context' = e.session.context
    /\ status' = e.session.status
    /\ renderMode' = e.session.renderMode
    /\ runId' = e.session.runId
    /\ hasCompleted' = e.session.hasCompleted
    /\ lastOp' = e.op
    /\ posted' = PostedSummary(e.posted)
    /\ called' = [i \in DOMAIN e.called |-> e.called[i].fn]
    /\ raised' = e.raised
    /\ initSeen' = (initSeen \/ e.op = "INIT")
    /\ runTerminals' =
          IF e.op = "INIT" THEN <<>>
          ELSE IF e.op \in {"complete", "cancel"} /\ Len(runTerminals) < 2
               THEN runTerminals \o PostedTypes(e.posted)
          ELSE runTerminals
    /\ reinit' =
          IF e.op = "INIT"
          THEN /\ hasCompleted
               /\ Truthy(runId)
               /\ Truthy(e.session.runId)
               /\ e.session.runId # runId
          ELSE reinit /\ ~e.session.hasCompleted
    /\ IF e.op = "DESTROY" /\ pc = "pending"
       THEN /\ pc' = "resolved"
            /\ result' = [success |-> FALSE, error |-> [code |-> Str(<<"ABORTED">>)]]
            /\ UNCHANGED <<params, hostname, request, response, fetches>>
       ELSE UNCHANGED execVars

\* the step takes effect e: state, refs and the step's observations; no
\* handler and no operation of the hook holds a reference to a request
\* executeTask started (no AbortController is passed to fetch, lines 94-103)
Commit(e) ==
    /\ inputs' = e.session.inputs
    /\ context' = e.session.context
    /\ status' = e.session.status
    /\ renderMode' = e.session.renderMode
    /\ runId' = e.session.runId
    /\ hasCompleted' = e.session.hasCompleted
    /\ lastOp' = e.op
    /\ posted' = PostedSummary(e.posted)
    /\ called' = [i \in DOMAIN e.called |-> e.called[i].fn]
    /\ raised' = e.raised
    /\ initSeen' = (initSeen \/ e.op = "INIT")
    /\ runTerminals' =
          IF e.op = "INIT" THEN <<>>
          ELSE IF e.op \in {"complete", "cancel"} /\ Len(runTerminals) < 2
               THEN runTerminals \o PostedTypes(e.posted)
          ELSE runTerminals
    /\ reinit' =
          IF e.op = "INIT"
          THEN /\ hasCompleted
               /\ Truthy(runId)
               /\ Truthy(e.session.runId)
               /\ e.session.runId # runId
          ELSE reinit /\ ~e.session.hasCompleted
    /\ UNCHANGED execVars

\* ------------------------------------------------------ component lifecycle
\* a variant of the effect that posts READY without registering the listener
MountEffect_unregistered ==
    /\ phase = "rendered"
    /\ parentWindow' = IF isEmbedded THEN "parent" ELSE "self"
    /\ listeners' = listeners
    /\ phase' = "mounted"
    /\ Commit(Effect("mount", Session,
                     postToParent(parentWindow',
                                  Envelope(Str(T_READY),
                                           [k |-> "object", version |-> SDK_VERSION])),
                     <<>>, FALSE))
    /\ observers' = observers + observed(renderedRunId)
    /\ UNCHANGED <<fixed, renderedRunId, boundConfig>>

\* the message effect on mount (lines 179-243): set parentWindow, register
\* handleMessage, then post READY
MountEffect ==
    /\ phase = "rendered"
    /\ parentWindow' = IF isEmbedded THEN "parent" ELSE "self"
    /\ listeners' = listeners + 1
    /\ phase' = "mounted"
    /\ Commit(Effect("mount", Session,
                     postToParent(parentWindow',
                                  Envelope(Str(T_READY),
                                           [k |-> "object", version |-> SDK_VERSION])),
                     <<>>, FALSE))
    /\ observers' = observers + observed(renderedRunId)
    /\ UNCHANGED <<fixed, renderedRunId, boundConfig>>

\* the effect's cleanup on unmount (lines 244-246)
Unmount ==
    /\ phase = "mounted"
    /\ listeners' = listeners - 1
    /\ phase' = "unmounted"
    /\ observers' = observers - observed(renderedRunId)
    /\ Commit(Nothing("unmount"))
    /\ UNCHANGED <<fixed, parentWindow, renderedRunId, boundConfig>>

\* a variant of the re-run that skips the cleanup
RerunEffect_noCleanup ==
    /\ phase = "mounted"
    /\ \E o \in OptionSets : options' = o
    /\ renderedRunId' = runId
    /\ boundConfig' = configOf(context)
    /\ observers' = (observers - observed(renderedRunId)) + observed(runId)
    /\ listeners' = listeners + 1
    /\ parentWindow' = IF isEmbedded THEN "parent" ELSE "self"
    /\ Commit(Effect("rerun", Session,
                     postToParent(parentWindow',
                                  Envelope(Str(T_READY),
                                           [k |-> "object", version |-> SDK_VERSION])),
                     <<>>, FALSE))
    /\ UNCHANGED <<isEmbedded, optTargetOrigin, destOrigin, phase>>

\* a render passes options that change a dependency of the message effect
\* (line 247: debugLog, postToParent, onInputsUpdate, onDestroy): React runs
\* the cleanup of the previous run (lines 244-246), then the effect again
\* (lines 180-242).  The render also re-creates the closures, and the
\* auto-resize effect runs again when its dependencies changed (line 266).
RerunEffect ==
    /\ phase = "mounted"
    /\ \E o \in OptionSets : options' = o
    /\ renderedRunId' = runId
    /\ boundConfig' = configOf(context)
    /\ observers' = (observers - observed(renderedRunId)) + observed(runId)
    /\ listeners' = (listeners - 1) + 1
    /\ parentWindow' = IF isEmbedded THEN "parent" ELSE "self"
    /\ Commit(Effect("rerun", Session,
                     postToParent(parentWindow',
                                  Envelope(Str(T_READY),
                                           [k |-> "object", version |-> SDK_VERSION])),
                     <<>>, FALSE))
    /\ UNCHANGED <<isEmbedded, optTargetOrigin, destOrigin, phase>>

\* a re-render after setRunId / setContext changed the state: useCallback (deps
\* [runId, ...], lines 121, 147, 162, 175; [context?.apiToken, ...], line 275)
\* makes new complete/cancel/setHeight/log/executeTask closures that read the
\* new runId and context fields; the auto-resize effect (deps [runId, setHeight],
\* line 266) runs its cleanup (lines 263-265), then its body (lines 250-261)
Render ==
    /\ phase = "mounted"
    /\ renderedRunId # runId \/ boundConfig # configOf(context)
    /\ renderedRunId' = runId
    /\ boundConfig' = configOf(context)
    /\ observers' = (observers - observed(renderedRunId)) + observed(runId)
    /\ Commit(Nothing("render"))
    /\ UNCHANGED <<fixed, parentWindow, phase, listeners>>

\* ------------------------------------------------------- inbound messages
\* String.prototype.toUpperCase on the letters the model uses
UpperOf ==
    [a |-> "A", b |-> "B", c |-> "C", e |-> "E", i |-> "I", k |-> "K", l |-> "L",
     n |-> "N", p |-> "P", r |-> "R", t |-> "T", w |-> "W", x |-> "X"]
toUpperCase(chars) ==
    [j \in DOMAIN chars |-> IF chars[j] \in DOMAIN UpperOf THEN UpperOf[chars[j]] ELSE chars[j]]

\* a variant that matches the type whatever its case
messageType_upper(message) ==
    LET t == Get(message, "type")
    IN  IF t.k = "string" THEN Str(toUpperCase(t.v)) ELSE t

\* the tag the handler dispatches on: message.type as it is (lines 191-202)
messageType(message) == Get(message, "type")

\* line 191: the message is a structured value with a truthy type
isStructured(message) ==
    /\ Truthy(message)
    /\ TypeOf(message) = "object"
    /\ Truthy(messageType(message))

\* line 196: message.type.startsWith("BRIXEL_")
hasBrixelPrefix(type) == startsWith(type.v, BRIXEL_)

\* destructuring `const {...} = payload` throws a TypeError on undefined / null
Destructurable(payload) == payload.k \notin {"undefined", "null"}

\* a variant of the merge that drops an update arriving without prior inputs
mergeInputs_needsPrev(prev, updatedInputs) ==
    IF Truthy(prev)
    THEN LET p == Spread(prev)
             u == Spread(updatedInputs)
         IN  Obj([x \in DOMAIN p \cup DOMAIN u |-> IF x \in DOMAIN u THEN u[x] ELSE p[x]])
    ELSE prev

\* a variant of the merge in which the prior value of a key wins
mergeInputs_prevWins(prev, updatedInputs) ==
    IF Truthy(prev)
    THEN LET p == Spread(prev)
             u == Spread(updatedInputs)
         IN  Obj([x \in DOMAIN p \cup DOMAIN u |-> IF x \in DOMAIN p THEN p[x] ELSE u[x]])
    ELSE updatedInputs

\* line 220: prev ? { ...prev, ...updatedInputs } : updatedInputs
mergeInputs(prev, updatedInputs) ==
    IF Truthy(prev)
    THEN LET p == Spread(prev)
             u == Spread(updatedInputs)
         IN  Obj([x \in DOMAIN p \cup DOMAIN u |-> IF x \in DOMAIN u THEN u[x] ELSE p[x]])
    ELSE updatedInputs

\* a variant of the drop that answers the dropped message with a READY
Discard_answering(where) ==
    Effect(where, Session,
           postToParent(parentWindow,
                        Envelope(Str(T_READY), [k |-> "object", version |-> SDK_VERSION])),
           <<>>, FALSE)

\* a variant of the drop that forgets the context
Discard_clearsContext(where) ==
    Effect(where, [Session EXCEPT !.context = Null], <<>>, <<>>, FALSE)

\* the message is dropped at `where`: the early return of line 192 or of
\* line 197, or no case of the switch
Discard(where) == Nothing(where)

\* an uncaught TypeError leaves the handler at `where`, before any state is
\* written: message.type.startsWith is not a function (line 196), or the
\* payload cannot be destructured (lines 204, 219)
Throw(where) == Effect(where, Session, <<>>, <<>>, TRUE)

\* a variant of the INIT case that merges the new inputs into the prior ones
handleInit_merge(payload) ==
    Effect("INIT",
           [inputs |-> mergeInputs(inputs, Get(payload, "inputs")),
            context |-> Get(payload, "context"),
            status |-> "ready",
            renderMode |-> Get(payload, "renderMode"),
            runId |-> Get(payload, "runId"),
            hasCompleted |-> FALSE],
           <<>>, <<>>, FALSE)

\* case "BRIXEL_INIT" (lines 203-216)
handleInit(payload) ==
    Effect("INIT",
           [inputs |-> Get(payload, "inputs"),
            context |-> Get(payload, "context"),
            status |-> "ready",
            renderMode |-> Get(payload, "renderMode"),
            runId |-> Get(payload, "runId"),
            hasCompleted |-> FALSE],
           <<>>, <<>>, FALSE)

\* a variant of the UPDATE_INPUTS case that ignores an update for another Run
handleUpdateInputs_checked(payload) ==
    LET updatedInputs == Get(payload, "inputs")
    IN  IF Get(payload, "runId") # runId THEN Nothing("UPDATE_INPUTS")
        ELSE Effect("UPDATE_INPUTS",
                    [Session EXCEPT !.inputs = mergeInputs(inputs, updatedInputs)],
                    <<>>,
                    IF options.onInputsUpdate
                    THEN <<[fn |-> "onInputsUpdate", arg |-> updatedInputs]>>
                    ELSE <<>>,
                    FALSE)

\* a variant of the UPDATE_INPUTS case that hands the merged inputs to the callback
handleUpdateInputs_merged(payload) ==
    LET updatedInputs == Get(payload, "inputs")
        merged == mergeInputs(inputs, updatedInputs)
    IN  Effect("UPDATE_INPUTS",
               [Session EXCEPT !.inputs = merged],
               <<>>,
               IF options.onInputsUpdate
               THEN <<[fn |-> "onInputsUpdate", arg |-> merged]>>
               ELSE <<>>,
               FALSE)

\* case "BRIXEL_UPDATE_INPUTS" (lines 218-224)
handleUpdateInputs(payload) ==
    LET updatedInputs == Get(payload, "inputs")
    IN  Effect("UPDATE_INPUTS",
               [Session EXCEPT !.inputs = mergeInputs(inputs, updatedInputs)],
               <<>>,
               IF options.onInputsUpdate
               THEN <<[fn |-> "onInputsUpdate", arg |-> updatedInputs]>>
               ELSE <<>>,
               FALSE)

\* a variant of the DESTROY case that also closes the Run
handleDestroy_closing ==
    Effect("DESTROY", [Session EXCEPT !.hasCompleted = TRUE], <<>>,
           IF options.onDestroy THEN <<[fn |-> "onDestroy", arg |-> Undefined]>> ELSE <<>>,
           FALSE)

\* case "BRIXEL_DESTROY" (lines 226-230)
handleDestroy ==
    Effect("DESTROY", Session, <<>>,
           IF options.onDestroy THEN <<[fn |-> "onDestroy", arg |-> Undefined]>> ELSE <<>>,
           FALSE)

\* handleMessage (lines 187-232), for event.data = message
handleMessage(message) ==
    IF ~isStructured(message) THEN Discard("return:192")
    ELSE LET type == messageType(message)
             payload == Get(message, "payload")
         IN  IF TypeOf(type) # "string" THEN Throw("throw:196")
             ELSE IF ~hasBrixelPrefix(type) THEN Discard("return:197")
             ELSE IF type.v = T_INIT
                  THEN IF Destructurable(payload) THEN handleInit(payload)
                       ELSE Throw("throw:204")
             ELSE IF type.v = T_UPDATE_INPUTS
                  THEN IF Destructurable(payload) THEN handleUpdateInputs(payload)
                       ELSE Throw("throw:219")
             ELSE IF type.v = T_DESTROY THEN handleDestroy
             ELSE Discard("nocase")

\* the window delivers a message event to the registered listener
OnMessage ==
    /\ listening
    /\ \E message \in Messages : \E e \in {handleMessage(message)} : Commit(e)
    /\ UNCHANGED <<fixed, parentWindow, rendered, phase, listeners>>

\* the listener receives a message of a host that passes credentials
OnSessionMessage ==
    /\ listening
    /\ \E message \in SessionMessages : \E e \in {handleMessage(message)} : Commit(e)
    /\ UNCHANGED <<fixed, parentWindow, rendered, phase, listeners>>

\* --------------------------------------------- operations of the application
\* The application calls the functions of the latest render; each reads the
\* runId that render captured (renderedRunId) and the refs as they are now.

\* a variant that never takes the early return of line 101 / 127
alreadyCompleted_never == FALSE

\* line 101 / line 127: if (hasCompleted.current) return
alreadyCompleted == hasCompleted

\* a variant that never takes the early return of lines 106, 132, 153, 168
missingRunId_never == FALSE

\* lines 106, 132, 153, 168: if (!runId) return
missingRunId == ~Truthy(renderedRunId)

\* lines 111-117 / 137-143: set the flag, set the status, post the envelope
finish(op, newStatus, envelope) ==
    Effect(op,
           [Session EXCEPT !.hasCompleted = TRUE, !.status = newStatus],
           postToParent(parentWindow, envelope),
           <<>>, FALSE)

\* complete (lines 99-122)
complete(output) ==
    IF alreadyCompleted THEN Nothing("complete")
    ELSE IF missingRunId THEN Nothing("complete")
    ELSE finish("complete", "completed",
                Envelope(Str(T_COMPLETE),
                         [k |-> "object", runId |-> renderedRunId, output |-> output]))

\* a variant of cancel without the early return of line 127
cancel_unguarded(reason) ==
    IF missingRunId THEN Nothing("cancel")
    ELSE finish("cancel", "cancelled",
                Envelope(Str(T_CANCEL),
                         [k |-> "object", runId |-> renderedRunId, reason |-> reason]))

\* cancel (lines 125-148)
cancel(reason) ==
    IF alreadyCompleted THEN Nothing("cancel")
    ELSE IF missingRunId THEN Nothing("cancel")
    ELSE finish("cancel", "cancelled",
                Envelope(Str(T_CANCEL),
                         [k |-> "object", runId |-> renderedRunId, reason |-> reason]))

\* a variant of setHeight without the guard of line 153
setHeight_unguarded(height) ==
    Effect("setHeight", Session,
           postToParent(parentWindow,
                        Envelope(Str(T_RESIZE),
                                 [k |-> "object", runId |-> renderedRunId,
                                  height |-> height])),
           <<>>, FALSE)

\* setHeight (lines 151-163)
setHeight(height) ==
    IF missingRunId THEN Nothing("setHeight")
    ELSE Effect("setHeight", Session,
                postToParent(parentWindow,
                             Envelope(Str(T_RESIZE),
                                      [k |-> "object", runId |-> renderedRunId,
                                       height |-> height])),
                <<>>, FALSE)

\* log (lines 166-176)
log(level, message, data) ==
    IF missingRunId THEN Nothing("log")
    ELSE Effect("log", Session,
                postToParent(parentWindow,
                             Envelope(Str(T_LOG),
                                      [k |-> "object", runId |-> renderedRunId,
                                       level |-> level, message |-> message,
                                       data |-> data])),
                <<>>, FALSE)

LogMessages == {Str(<<"clicked">>)}
LogData == {Undefined}

\* the application calls one of the functions the hook returned
Complete ==
    /\ \E output \in Outputs : \E e \in {complete(output)} : Commit(e)
    /\ UNCHANGED <<fixed, parentWindow, rendered, phase, listeners>>

Cancel ==
    /\ \E reason \in Reasons : \E e \in {cancel(reason)} : Commit(e)
    /\ UNCHANGED <<fixed, parentWindow, rendered, phase, listeners>>

SetHeight ==
    /\ \E height \in Heights : \E e \in {setHeight(height)} : Commit(e)
    /\ UNCHANGED <<fixed, parentWindow, rendered, phase, listeners>>

Log ==
    /\ \E level \in Levels, message \in LogMessages, data \in LogData :
          \E e \in {log(level, message, data)} : Commit(e)
    /\ UNCHANGED <<fixed, parentWindow, rendered, phase, listeners>>

\* the sizes the observer reports (entry.contentRect.height)
ObservedHeights == {Num(480)}

\* the ResizeObserver callback (lines 254-259): document.body changed size
\* and the observer calls the setHeight its effect captured
Resized ==
    /\ observers > 0
    /\ \E height \in ObservedHeights :
          \E e \in {[setHeight(height) EXCEPT !.op = "resized"]} : Commit(e)
    /\ UNCHANGED <<fixed, parentWindow, rendered, phase, listeners>>

\* standalone mode: parentWindow.current is the own window (line 181), so an
\* envelope the previous step posted is dispatched to the hook's own listener
LoopbackMessage ==
    Envelope(Str(posted[1].type), [k |-> "object", runId |-> posted[1].runId])

Loopback ==
    /\ listening
    /\ posted # <<>>
    /\ posted[1].to = "self"
    /\ Delivered(posted[1])
    /\ \E e \in {[handleMessage(LoopbackMessage) EXCEPT !.op = "loopback"]} : Commit(e)
    /\ UNCHANGED <<fixed, parentWindow, rendered, phase, listeners>>

\* ------------------------------------------------ executeTask (executeTask.ts)
\* One call of executeTask: the synchronous part up to `await fetch`, then
\* the continuation after fetch rejected or resolved.

DEV_BASE_URL == Str(<<"http://localhost:8000/backoffice/ui-components">>)
PROD_BASE_URL == Str(<<"https://api.brixel.ai/backoffice/ui-components">>)

\* typeof window === 'undefined'
NoWindow == [k |-> "nowindow"]
\* window.location.hostname of the page that runs the call
Hostnames ==
    {NoWindow, Str(<<"localhost">>), Str(<<"127.0.0.1">>), Str(<<"app.example.com">>)}

\* an inputs value JSON.stringify cannot serialize (a circular structure)
Circular == [k |-> "object", circular |-> TRUE]
Serializable(v) == "circular" \notin DOMAIN v

\* optional string params: absent, empty, or a value
ApiTokens == {Undefined, Str(<<>>), Str(<<"tok-1">>)}
ConversationIds == {Undefined, Str(<<>>), Str(<<"conv-1">>)}
ApiBaseUrls == {Undefined, Str(<<>>), Str(<<"https://staging.example.com/api">>)}
TaskInputs == {Obj([foo |-> 1]), Circular}

\* ExecuteTaskParams (types.ts 259-270)
ExecParams ==
    {[taskUuid |-> Str(<<"task-123">>), inputs |-> i, conversationId |-> c,
      apiToken |-> t, apiBaseUrl |-> u] :
        i \in TaskInputs, c \in ConversationIds, t \in ApiTokens, u \in ApiBaseUrls}

\* an Error instance
ErrorObj(name, message) == [k |-> "object", error |-> name, message |-> message]
\* error instanceof Error
isError(e) == "error" \in DOMAIN e

\* what fetch rejects with: a TypeError, or a value that is not an Error
FetchFailures ==
    {ErrorObj("TypeError", Str(<<"Failed to fetch">>)), Str(<<"offline">>)}

\* a response body that is not JSON (an HTML error page, an empty body)
Unparseable == [k |-> "text"]
\* the response bodies a server sends
Bodies ==
    {Unparseable,
     Null,
     [k |-> "object"],
     [k |-> "object", code |-> Str(<<"TASK_FAILED">>)],
     [k |-> "object", message |-> Str(<<"boom">>)],
     [k |-> "object", details |-> [k |-> "object", field |-> Str(<<"inputs">>)]],
     [k |-> "object", code |-> Str(<<"TASK_FAILED">>), message |-> Str(<<"boom">>),
      details |-> [k |-> "object", field |-> Str(<<"inputs">>)]],
     [k |-> "object", code |-> Str(<<>>), message |-> Str(<<>>)],
     [k |-> "object", output |-> Num(42)]}
\* the responses fetch resolves with; a 204 has no body
Responses ==
    {[status |-> st, body |-> b] : st \in {200, 404, 500}, b \in Bodies}
    \cup {[status |-> 204, body |-> Unparseable]}

\* response.ok
ok(resp) == resp.status >= 200 /\ resp.status <= 299

\* a || b
Or(a, b) == IF Truthy(a) THEN a ELSE b

\* getApiBaseUrl (lines 8-17)
getApiBaseUrl(host) ==
    IF host # NoWindow /\ host \in {Str(<<"localhost">>), Str(<<"127.0.0.1">>)}
    THEN DEV_BASE_URL
    ELSE PROD_BASE_URL

\* line 70: apiBaseUrl || getApiBaseUrl()
baseUrl(p, host) == Or(p.apiBaseUrl, getApiBaseUrl(host))

\* lines 79-91: the request headers, as a function from header name to value
headers(p) ==
    LET names ==
            {"Content-Type"}
            \cup (IF Truthy(p.apiToken) THEN {"Authorization"} ELSE {})
            \cup (IF Truthy(p.conversationId) THEN {"x-conversation-id"} ELSE {})
    IN  [n \in names |->
            CASE n = "Content-Type" -> Str(<<"application/json">>)
              [] n = "Authorization" -> Str(<<"Bearer ">> \o p.apiToken.v)
              [] OTHER -> p.conversationId]

\* a variant that always sends the cookies
credentials_include(p) == "include"

\* line 98: apiToken ? "same-origin" : "include"
credentials(p) == IF Truthy(p.apiToken) THEN "same-origin" ELSE "include"

\* lines 94-103: the arguments of fetch
fetchArgs(p, host) ==
    [url |-> Str(baseUrl(p, host).v \o <<"/execute_task">>),
     method |-> "POST",
     headers |-> headers(p),
     credentials |-> credentials(p),
     body |-> [task_uuid |-> p.taskUuid, inputs |-> p.inputs]]

\* lines 123-132: the catch block
catchError(error) ==
    [success |-> FALSE,
     error |->
        [code |-> Str(<<"NETWORK_ERROR">>),
         message |-> IF isError(error) THEN error.message
                     ELSE Str(<<"Unknown error occurred">>),
         details |-> error]]

\* lines 105-122: await response.json(), then the result; response.json()
\* rejects with a SyntaxError when the body is not JSON, and data.code throws a
\* TypeError when the body is the JSON value null
afterFetch(resp) ==
    IF resp.body = Unparseable
    THEN catchError(ErrorObj("SyntaxError", Str(<<"Unexpected token">>)))
    ELSE LET data == resp.body
             st == ToString(resp.status)
         IN  IF ~ok(resp)
             THEN IF data.k \in {"null", "undefined"}
                  THEN catchError(ErrorObj("TypeError",
                                           Str(<<"Cannot read properties of null">>)))
                  ELSE [success |-> FALSE,
                        error |->
                           [code |-> Or(Get(data, "code"), Str(<<"HTTP_", st>>)),
                            message |-> Or(Get(data, "message"),
                                           Str(<<"Request failed with status ", st>>)),
                            details |-> Or(Get(data, "details"), data)]]
             ELSE [success |-> TRUE, data |-> data]

\* executeTask up to `await fetch` (lines 64-103): JSON.stringify throws on a
\* circular inputs value, inside the try, before fetch is called
ExecuteTask ==
    /\ pc = "called"
    /\ IF Serializable(params.inputs)
       THEN /\ request' = fetchArgs(params, hostname)
            /\ fetches' = fetches + 1
            /\ pc' = "pending"
            /\ result' = result
       ELSE /\ request' = request
            /\ fetches' = fetches
            /\ pc' = "resolved"
            /\ result' = catchError(ErrorObj("TypeError",
                                             Str(<<"Converting circular structure to JSON">>)))
    /\ UNCHANGED <<params, hostname, response, hookVars>>

\* fetch rejects: no response was obtained (lines 123-132)
FetchRejects ==
    /\ pc = "pending"
    /\ \E error \in FetchFailures : result' = catchError(error)
    /\ pc' = "resolved"
    /\ UNCHANGED <<params, hostname, request, response, fetches, hookVars>>

\* fetch resolves with a response (lines 105-122)
FetchResolves ==
    /\ pc = "pending"
    /\ \E resp \in Responses :
          /\ response' = resp
          /\ result' = afterFetch(resp)
    /\ pc' = "resolved"
    /\ UNCHANGED <<params, hostname, request, fetches, hookVars>>

\* a call of executeTask with some params, on some page
ExecInit ==
    /\ HookInit
    /\ params \in ExecParams
    /\ hostname \in Hostnames
    /\ pc = "called"
    /\ request = None
    /\ response = None
    /\ result = None
    /\ fetches = 0

ExecNext ==
    \/ ExecuteTask
    \/ FetchRejects
    \/ FetchResolves

ExecSpec == ExecInit /\ [][ExecNext]_vars

\* the page the task runs on
PageHost == Str(<<"app.example.com">>)

\* createExecuteTask (lines 167-182) with the config the hook bound at the
\* latest render (useBrixelTask.ts 269-276): the params executeTask receives
boundParams(taskInputs) ==
    [taskUuid |-> Str(<<"task-123">>), inputs |-> taskInputs,
     apiToken |-> boundConfig.apiToken,
     conversationId |-> boundConfig.conversationId,
     apiBaseUrl |-> boundConfig.apiBaseUrl]

\* the application calls the executeTask the hook returned: the bound
\* function passes its config, and executeTask runs up to `await fetch`
\* (executeTask.ts 64-103) before anything else can happen
BoundExecuteTask ==
    /\ pc = "idle"
    /\ \E taskInputs \in TaskInputs : params' = boundParams(taskInputs)
    /\ hostname' = PageHost
    /\ IF Serializable(params'.inputs)
       THEN /\ request' = fetchArgs(params', hostname')
            /\ fetches' = fetches + 1
            /\ pc' = "pending"
            /\ result' = result
       ELSE /\ request' = request
            /\ fetches' = fetches
            /\ pc' = "resolved"
            /\ result' = catchError(ErrorObj("TypeError",
                                             Str(<<"Converting circular structure to JSON">>)))
    /\ UNCHANGED <<response, hookVars>>

\* a session of the hook during which the application calls executeTask once
InFlightNext ==
    \/ MountEffect
    \/ Render
    \/ OnSessionMessage
    \/ BoundExecuteTask
    \/ FetchRejects
    \/ FetchResolves

InFlightSpec == Init /\ [][InFlightNext]_vars

\* ---------------------------------------------------------- specification
Next ==
    \/ MountEffect
    \/ RerunEffect
    \/ Unmount
    \/ Render
    \/ OnMessage
    \/ Complete
    \/ Cancel
    \/ SetHeight
    \/ Log
    \/ Resized
    \/ Loopback

Spec == Init /\ [][Next]_vars

\* the hook of a component that passes targetOrigin or not, whose destination
\* window shows the host page or another page, with a host that sends the
\* session messages
OriginInit ==
    /\ HookStart
    /\ optTargetOrigin \in {Undefined, HOST_ORIGIN}
    /\ destOrigin \in {HOST_ORIGIN, OTHER_ORIGIN}
    /\ ExecIdle

OriginNext ==
    \/ MountEffect
    \/ RerunEffect
    \/ Unmount
    \/ Render
    \/ OnSessionMessage
    \/ Complete
    \/ Cancel
    \/ SetHeight
    \/ Log
    \/ Resized
    \/ Loopback

OriginSpec == OriginInit /\ [][OriginNext]_vars

\* ------------------------------------------------------------------ claims
\* what each call of an operation would do in the current state
CompletionCalls == {complete(o) : o \in Outputs} \cup {cancel(r) : r \in Reasons}
SignalCalls ==
    {setHeight(h) : h \in Heights}
    \cup {log(l, m, d) : l \in Levels, m \in LogMessages, d \in LogData}

\* the catalog envelopes whose payload has the declared shape
WellFormedMessages ==
    {Envelope(Str(T_INIT), p) : p \in InitPayloads}
    \cup {Envelope(Str(T_UPDATE_INPUTS), p) : p \in UpdatePayloads}
    \cup {Envelope(Str(T_DESTROY), p) : p \in DestroyPayloads}

\* structured messages whose type is absent or does not start with "BRIXEL_"
UnprefixedMessages ==
    {Envelope(Str(t), AnyPayload) : t \in UnprefixedTypes}
    \cup {Envelope(t, AnyPayload) : t \in NonStringTypes}
    \cup {Obj(EmptyProps)}

C2_ReinitNextCompleteTagged ==
    [][(reinit /\ lastOp' = "complete") =>
          /\ Len(posted') = 1
          /\ posted'[1].type = T_COMPLETE
          /\ posted'[1].runId = runId
          /\ status' = "completed"
      ]_vars

\* C3 - missing-run guards.  While no INIT has been received, the status is
\* "initializing", hasCompleted is false, and a call of setHeight, log,
\* complete or cancel posts nothing and leaves the session state as it is.
C3_MissingRunGuards ==
    ~initSeen =>
        /\ status = "initializing"
        /\ ~hasCompleted
        /\ \A e \in CompletionCalls \cup SignalCalls :
              e.posted = <<>> /\ e.session = Session

\* C3 witness: complete() called on the mounted hook before any INIT
C3_Witness ==
    /\ ~initSeen
    /\ lastOp = "complete"
    /\ phase = "mounted"
    /\ parentWindow # "null"
    /\ posted = <<>>
    /\ status = "initializing"
    /\ ~hasCompleted

\* C4 - malformed or unknown inbound messages never raise.  Whatever value the
\* channel delivers, the handler returns normally; and a value that is not a
\* well-formed catalog envelope leaves the session state as it was.
C4_NeverRaises ==
    [][\A m \in Messages :
          (listening /\ Commit(handleMessage(m))) =>
              /\ ~raised'
              /\ m \notin WellFormedMessages => sessionVars' = sessionVars
      ]_vars

\* C5 - unrecognized message inertness.  Handling a structured message whose
\* type is absent or does not start with "BRIXEL_" (case-sensitive) leaves
\* status, runId, inputs, context, renderMode and hasCompleted unchanged,
\* invokes no callback and posts no envelope.
C5_UnprefixedInert ==
    \A m \in UnprefixedMessages :
        LET e == handleMessage(m)
        IN  /\ e.session = Session
            /\ e.called = <<>>
            /\ e.posted = <<>>

\* C5 witness: a message whose type is a string without the prefix was handled
\* by a hook that has both callbacks registered and a live Run
C5_Witness ==
    /\ lastOp = "return:197"
    /\ options.onInputsUpdate /\ options.onDestroy
    /\ status = "ready"
    /\ called = <<>>
    /\ posted = <<>>

\* C6 - INIT is adopted unconditionally.  In every state, whatever the status,
\* handling an INIT envelope makes runId, inputs, context and renderMode
\* exactly the payload's values (inputs replaced, not merged), hasCompleted
\* false and status "ready"; it posts nothing, calls nothing and does not throw.
C6_InitAdopted ==
    \A p \in InitPayloads :
        LET e == handleMessage(Envelope(Str(T_INIT), p))
        IN  /\ e.session =
                  [inputs |-> p.inputs, context |-> p.context, status |-> "ready",
                   renderMode |-> p.renderMode, runId |-> p.runId,
                   hasCompleted |-> FALSE]
            /\ e.posted = <<>>
            /\ e.called = <<>>
            /\ ~e.raised

\* C6 witness: an INIT without inputs replaced a finished Run of another runId:
\* the session is ready, the guard is open and no inputs are left over
C6_Witness ==
    /\ lastOp = "INIT"
    /\ reinit
    /\ status = "ready"
    /\ ~hasCompleted
    /\ inputs = Null

\* C7 - partial input merge.  After an UPDATE_INPUTS envelope the inputs are
\* the shallow merge of the prior inputs with the update: the update's keys
\* override, the other keys are kept; without prior inputs the update becomes
\* the inputs.  {a:1,b:2} with {b:3} gives {a:1,b:3}; nothing with {x:9}
\* gives {x:9}.
C7_PartialInputMerge ==
    /\ \A p \in UpdatePayloads :
          LET e == handleMessage(Envelope(Str(T_UPDATE_INPUTS), p))
              u == p.inputs
              after == e.session.inputs
          IN  IF inputs \in {Null, Undefined}
              THEN after = u
              ELSE /\ after.k = "object"
                   /\ DOMAIN after.f = DOMAIN inputs.f \cup DOMAIN u.f
                   /\ \A x \in DOMAIN after.f :
                         after.f[x] = IF x \in DOMAIN u.f THEN u.f[x] ELSE inputs.f[x]
    /\ mergeInputs(Obj([a |-> 1, b |-> 2]), Obj([b |-> 3])) = Obj([a |-> 1, b |-> 3])
    /\ mergeInputs(Null, Obj([x |-> 9])) = Obj([x |-> 9])

\* C7 witness: {b:1} was merged into {a:1,b:2}
C7_Witness ==
    /\ lastOp = "UPDATE_INPUTS"
    /\ inputs = Obj([a |-> 1, b |-> 1])

\* C8 - UPDATE_INPUTS changes only inputs.  In every state, handling an
\* UPDATE_INPUTS envelope leaves status, runId, context, renderMode and
\* hasCompleted as they were, posts nothing, and calls the registered
\* input-update callback exactly once with the raw partial inputs of the
\* payload (no callback registered: no call).
C8_UpdateChangesOnlyInputs ==
    \A p \in UpdatePayloads \cup {[k |-> "object"]} :
        LET e == handleMessage(Envelope(Str(T_UPDATE_INPUTS), p))
        IN  /\ [e.session EXCEPT !.inputs = inputs] = Session
            /\ e.posted = <<>>
            /\ e.called =
                  IF options.onInputsUpdate
                  THEN <<[fn |-> "onInputsUpdate", arg |-> Get(p, "inputs")]>>
                  ELSE <<>>
            /\ ~e.raised

\* C8 witness: an update handled after the Run completed: the callback ran
\* once, the inputs were merged, the Run is still completed
C8_Witness ==
    /\ lastOp = "UPDATE_INPUTS"
    /\ called = <<"onInputsUpdate">>
    /\ status = "completed"
    /\ hasCompleted
    /\ inputs = Obj([a |-> 1, b |-> 1])

\* C9 - DESTROY only invokes the teardown callback.  A step that handles
\* DESTROY calls the registered onDestroy once, posts nothing, does not throw
\* and leaves status, runId, inputs, context, renderMode and hasCompleted
\* unchanged; every call of complete, cancel, setHeight and log has the same
\* effect after it as before it.
C9_DestroyOnlyTeardown ==
    [][lastOp' = "DESTROY" =>
          /\ sessionVars' = sessionVars
          /\ posted' = <<>>
          /\ called' = (IF options.onDestroy THEN <<"onDestroy">> ELSE <<>>)
          /\ ~raised'
          /\ CompletionCalls' = CompletionCalls
          /\ SignalCalls' = SignalCalls
      ]_vars

\* C9 witness: DESTROY handled on a live Run whose functions are current: the
\* callback ran, the Run is still ready and can still complete
C9_Witness ==
    /\ lastOp = "DESTROY"
    /\ called = <<"onDestroy">>
    /\ status = "ready"
    /\ ~hasCompleted
    /\ Truthy(runId)
    /\ renderedRunId = runId
    /\ \A o \in Outputs : Len(complete(o).posted) = 1

\* C10 - setHeight and log are gated only by runId.  Whenever the session has
\* a runId, also after the Run completed or was cancelled, setHeight(h) posts
\* exactly one RESIZE(runId, h) and log(level, msg, data) posts exactly one
\* LOG(runId, level, msg, data), and neither changes the session state.
C10_SignalsGatedOnlyByRunId ==
    Truthy(runId) =>
        /\ \A h \in Heights :
              LET e == setHeight(h)
              IN  /\ Len(e.posted) = 1
                  /\ e.posted[1].message =
                        Envelope(Str(T_RESIZE),
                                 [k |-> "object", runId |-> runId, height |-> h])
                  /\ e.session = Session
        /\ \A l \in Levels, m \in LogMessages, d \in LogData :
              LET e == log(l, m, d)
              IN  /\ Len(e.posted) = 1
                  /\ e.posted[1].message =
                        Envelope(Str(T_LOG),
                                 [k |-> "object", runId |-> runId, level |-> l,
                                  message |-> m, data |-> d])
                  /\ e.session = Session

\* C11 - context is immutable except by INIT.  Only a step that adopts an INIT
\* changes the context; UPDATE_INPUTS, DESTROY, prefixed messages outside the
\* catalog (BRIXEL_UPDATE_THEME, BRIXEL_UPDATE_LOCALE, ...), every other
\* message and every operation of the task leave it as it was, and it is null
\* as long as no INIT has been adopted.
C11_ContextOnlyByInit ==
    /\ [](/\ ~initSeen => context = Null
          /\ \A m \in Messages :
                LET e == handleMessage(m)
                IN  e.op # "INIT" => e.session.context = context
          /\ \A e \in CompletionCalls \cup SignalCalls : e.session.context = context)
    /\ [][lastOp' # "INIT" => context' = context]_vars

\* C11 witness: a prefixed message outside the catalog (such as
\* BRIXEL_UPDATE_THEME) was handled on a live Run: the context is still the
\* dark-theme context of the INIT
C11_Witness ==
    /\ lastOp = "nocase"
    /\ status = "ready"
    /\ context = Obj([theme |-> Str(<<"dark">>)])

\* the task -> host types of the catalog
TaskToHostTypes == {T_READY, T_COMPLETE, T_CANCEL, T_RESIZE, T_ERROR, T_LOG}
\* the host -> task types of the catalog
HostToTaskTypes == {T_INIT, T_UPDATE_INPUTS, T_DESTROY}

\* C12 - outbound direction.  Every envelope a step posted, and every envelope
\* any call of complete, cancel, setHeight or log would post, has a
\* task -> host type, never a host -> task type, and unless it is READY it
\* carries a runId that is a non-empty string.
C12_OutboundDirection ==
    /\ \A i \in DOMAIN posted :
          /\ posted[i].type \in TaskToHostTypes \ HostToTaskTypes
          /\ posted[i].type # T_READY =>
                (posted[i].runId.k = "string" /\ Truthy(posted[i].runId))
    /\ \A e \in CompletionCalls \cup SignalCalls :
          \A i \in DOMAIN e.posted :
              LET msg == e.posted[i].message
              IN  /\ msg.type.v \in (TaskToHostTypes \ HostToTaskTypes) \ {T_READY}
                  /\ msg.payload.runId.k = "string"
                  /\ Truthy(msg.payload.runId)

\* C12 witness: a RESIZE carrying the Run's id went out after the Run completed
C12_Witness ==
    /\ lastOp = "setHeight"
    /\ Len(posted) = 1
    /\ posted[1].type = T_RESIZE
    /\ posted[1].runId = runId
    /\ hasCompleted

\* an optional string param was supplied: it is a non-empty string
Supplied(v) == v.k = "string" /\ v.v # <<>>

\* C13 - credential routing.  Every executeTask call whose body can be
\* serialized calls fetch; with a bearer token the request carries
\* "Authorization: Bearer <token>" and credentials "same-origin"; without one
\* it carries no Authorization header and credentials "include"; the
\* x-conversation-id header is there, with the id, exactly when a conversation
\* id was supplied.
C13_CredentialRouting ==
    /\ (pc \in {"pending", "resolved"} /\ Serializable(params.inputs)) => request # None
    /\ request # None =>
          LET h == request.headers
          IN  /\ Supplied(params.apiToken) =>
                    /\ "Authorization" \in DOMAIN h
                    /\ h["Authorization"] = Str(<<"Bearer ">> \o params.apiToken.v)
                    /\ request.credentials = "same-origin"
              /\ ~Supplied(params.apiToken) =>
                    /\ "Authorization" \notin DOMAIN h
                    /\ request.credentials = "include"
              /\ "x-conversation-id" \in DOMAIN h <=> Supplied(params.conversationId)
              /\ Supplied(params.conversationId) =>
                    h["x-conversation-id"] = params.conversationId

\* C13 witness: a call with a token and without conversation id is waiting
\* for fetch
C13_Witness ==
    /\ pc = "pending"
    /\ params.apiToken = Str(<<"tok-1">>)
    /\ params.conversationId = Undefined
    /\ request.credentials = "same-origin"
    /\ DOMAIN request.headers = {"Content-Type", "Authorization"}

\* the server's body carries a value for field f
ServerSupplied(f) ==
    /\ response.body.k = "object"
    /\ f \in DOMAIN response.body
    /\ Truthy(response.body[f])

\* C14 - HTTP failure normalization.  Whenever a response with a non-success
\* status was obtained, whatever its body, the result is a failure whose code
\* is the server's code, else "HTTP_<status>", whose message is the server's
\* message, else "Request failed with status <status>", and whose details are
\* the server's details, else the server's body.
C14_HttpFailureNormalized ==
    (pc = "resolved" /\ response # None /\ ~ok(response)) =>
        LET st == ToString(response.status)
        IN  /\ result.success = FALSE
            /\ result.error.code =
                  (IF ServerSupplied("code") THEN response.body.code
                   ELSE Str(<<"HTTP_", st>>))
            /\ result.error.message =
                  (IF ServerSupplied("message") THEN response.body.message
                   ELSE Str(<<"Request failed with status ", st>>))
            /\ result.error.details =
                  (IF ServerSupplied("details") THEN response.body.details
                   ELSE response.body)

\* the result is the network-level failure
IsNetworkError(r) ==
    /\ r.success = FALSE
    /\ r.error.code = Str(<<"NETWORK_ERROR">>)

\* C15 - never rejects, and failure kinds are distinguished.  Every call
\* resolves to a result with a success discriminant; the result has the code
\* "NETWORK_ERROR" exactly when no response was obtained.
C15_NetworkErrorIffNoResponse ==
    pc = "resolved" =>
        /\ result # None
        /\ result.success \in BOOLEAN
        /\ IsNetworkError(result) <=> response = None

\* C16 - success normalization.  Whenever a response with a 2xx status was
\* obtained, the result is success = true with the parsed body as data and no
\* error field.
C16_SuccessNormalized ==
    (pc = "resolved" /\ response # None /\ ok(response)) =>
        /\ result.success = TRUE
        /\ "error" \notin DOMAIN result
        /\ response.body # Unparseable => result.data = response.body

\* C17 - base URL selection.  The request goes to "<baseUrl>/execute_task",
\* where baseUrl is the override whenever one is supplied, whatever string it
\* is, and otherwise the development URL on localhost / 127.0.0.1 and the
\* production URL everywhere else.
C17_BaseUrlSelection ==
    request # None =>
        request.url.v =
            (IF params.apiBaseUrl.k = "string" THEN params.apiBaseUrl.v
             ELSE IF hostname \in {Str(<<"localhost">>), Str(<<"127.0.0.1">>)}
                  THEN DEV_BASE_URL.v
             ELSE PROD_BASE_URL.v) \o <<"/execute_task">>

\* C18 - status transition graph.  The status starts at "initializing" and
\* stays there until an INIT is adopted; a step changes it only in one of three
\* ways: an INIT makes it "ready"; a complete that posts COMPLETE takes it
\* from "ready" to "completed"; a cancel that posts CANCEL takes it from
\* "ready" to "cancelled".  So a terminal status is left only by INIT, and the
\* status never returns to "initializing" (nor becomes "error").
C18_StatusGraph ==
    /\ status = "initializing"
    /\ [][
           /\ status' \in {"initializing", "ready", "completed", "cancelled"}
           /\ ~initSeen' => status' = "initializing"
           /\ status # "initializing" => status' # "initializing"
           /\ status' # status =>
                 \/ lastOp' = "INIT" /\ status' = "ready"
                 \/ /\ status = "ready"
                    /\ lastOp' = "complete"
                    /\ status' = "completed"
                    /\ Len(posted') = 1 /\ posted'[1].type = T_COMPLETE
                 \/ /\ status = "ready"
                    /\ lastOp' = "cancel"
                    /\ status' = "cancelled"
                    /\ Len(posted') = 1 /\ posted'[1].type = T_CANCEL
          ]_vars

\* C18 witness: an INIT took a finished Run's terminal status back to "ready"
C18_Witness ==
    /\ lastOp = "INIT"
    /\ reinit
    /\ status = "ready"

\* C19 - READY handshake.  Every run of the channel effect (on mount and on
\* every re-run) posts exactly one READY to the parent window, whatever the
\* runId, status and hasCompleted are, and changes no session state; the
\* re-run is possible in every mounted state; when the READY is out the
\* listener is registered, and it stays registered until the unmount, so the
\* INIT the host sends in response is delivered to it.
C19_ReadyHandshake ==
    /\ [](phase = "mounted" => ENABLED RerunEffect)
    /\ [][lastOp' \in {"mount", "rerun"} =>
             /\ Len(posted') = 1
             /\ posted'[1].type = T_READY
             /\ posted'[1].to = parentWindow'
             /\ parentWindow' # "null"
             /\ listening'
             /\ sessionVars' = sessionVars
         ]_vars
    /\ [][(listening /\ ~listening') => lastOp' = "unmount"]_vars

\* C19 witness: the effect re-ran after the Run completed and posted READY
\* again; the Run is still completed
C19_Witness ==
    /\ lastOp = "rerun"
    /\ status = "completed"
    /\ hasCompleted
    /\ Len(posted) = 1
    /\ posted[1].type = T_READY
    /\ listening

\* the lastOp values of the steps in which handleMessage ran
HandlerSteps ==
    {"return:192", "throw:196", "return:197", "throw:204", "throw:219", "nocase",
     "INIT", "UPDATE_INPUTS", "DESTROY"}

\* C20 - listener scoping.  While the hook is mounted exactly one message
\* listener is registered, also right after an effect re-run; before the
\* effect first ran and after the unmount none is; a message is handled only
\* while one is registered, so after the unmount no message step happens, no
\* message changes the state and no callback is invoked.
C20_ListenerScoping ==
    /\ [](/\ phase = "mounted" => listeners = 1
          /\ phase \in {"rendered", "unmounted"} => listeners = 0)
    /\ [][
           /\ lastOp' \in HandlerSteps => listeners = 1
           /\ phase = "unmounted" =>
                 /\ lastOp' \notin HandlerSteps
                 /\ called' = <<>>
                 /\ listeners' = 0
         ]_vars

\* C20 witness: after an effect re-run on a live Run exactly one listener is
\* registered
C20_Witness ==
    /\ lastOp = "rerun"
    /\ phase = "mounted"
    /\ listeners = 1
    /\ status = "ready"

\* C21 - UPDATE_INPUTS before INIT.  As long as no INIT has been adopted, an
\* UPDATE_INPUTS is applied: without prior inputs the partial payload becomes
\* the inputs, the registered input-update callback is invoked, runId stays
\* null and the status stays "initializing", so complete, cancel, setHeight
\* and log post nothing, before and after the update; an INIT then replaces
\* the inputs by its own.
C21_UpdateBeforeInit ==
    ~initSeen =>
        /\ runId = Null
        /\ status = "initializing"
        /\ \A e \in CompletionCalls \cup SignalCalls : e.posted = <<>>
        /\ \A p \in UpdatePayloads :
              LET e == handleMessage(Envelope(Str(T_UPDATE_INPUTS), p))
              IN  /\ inputs = Null => e.session.inputs = p.inputs
                  /\ e.session.runId = Null
                  /\ e.session.status = "initializing"
                  /\ ~e.session.hasCompleted
                  /\ Len(e.called) = (IF options.onInputsUpdate THEN 1 ELSE 0)
        /\ \A p \in InitPayloads :
              handleMessage(Envelope(Str(T_INIT), p)).session.inputs = p.inputs

\* C21 witness: an update {b:1} arrived before any INIT: it is the inputs now,
\* the callback ran, and there is still no Run
C21_Witness ==
    /\ ~initSeen
    /\ lastOp = "UPDATE_INPUTS"
    /\ inputs = Obj([b |-> 1])
    /\ called = <<"onInputsUpdate">>
    /\ runId = Null
    /\ status = "initializing"

\* C22 - resize bridge activation.  One observer is active exactly while the
\* hook is mounted, embedded and rendered with a runId, none otherwise (none
\* in standalone mode, none before the first INIT, none after the unmount,
\* never two); every size change the observer reports posts one RESIZE that
\* carries the session's current runId.
C22_ResizeBridge ==
    /\ observers =
          (IF phase = "mounted" /\ isEmbedded /\ Truthy(renderedRunId) THEN 1 ELSE 0)
    /\ ~isEmbedded => observers = 0
    /\ ~initSeen => observers = 0
    /\ phase = "unmounted" => observers = 0
    /\ observers <= 1
    /\ lastOp = "resized" =>
          /\ Len(posted) = 1
          /\ posted[1].type = T_RESIZE
          /\ posted[1].to = "parent"
          /\ posted[1].runId = runId

\* a result of the declared shape (ExecuteTaskResponse): success with data,
\* or failure with an error that has a code
Structured(r) ==
    /\ r # None
    /\ IF r.success THEN "data" \in DOMAIN r
       ELSE "error" \in DOMAIN r /\ "code" \in DOMAIN r.error

\* what holds of a call in every state of a session; requests is the set of
\* numbers of HTTP requests a call that has started may have issued
CallState(requests) ==
    /\ fetches <= 1
    /\ pc = "idle" => fetches = 0 /\ request = None /\ result = None
    /\ pc \in {"pending", "resolved"} =>
          /\ fetches \in requests
          /\ fetches = 1 <=> Serializable(params.inputs)
          /\ fetches = 1 => request = fetchArgs(params, hostname)
          /\ fetches = 0 => request = None
    /\ pc = "pending" =>
          /\ result = None
          /\ listening =>
                \A m \in SessionMessages :
                    handleMessage(m).op \in {"INIT", "UPDATE_INPUTS", "DESTROY"}
    /\ pc = "resolved" => Structured(result)

\* what holds of every step of a session with a call
CallSteps ==
    /\ (pc = "idle" /\ pc' # "idle") =>
          /\ params'.apiToken = boundConfig.apiToken
          /\ params'.conversationId = boundConfig.conversationId
          /\ params'.apiBaseUrl = boundConfig.apiBaseUrl
    /\ pc # "idle" =>
          /\ params' = params
          /\ request' = request
          /\ fetches' = fetches
    /\ (pc = "pending" /\ pc' # "pending") =>
          /\ pc' = "resolved"
          /\ UNCHANGED hookVars
    /\ (pc = "pending" /\ lastOp' \in {"INIT", "UPDATE_INPUTS", "DESTROY"}
                       /\ hookVars' # hookVars) =>
          UNCHANGED execVars
    /\ result # None => result' = result

\* C23 as stated - the remote invocation is neither blocked nor aborted by
\* the session, and EVERY call issues exactly one HTTP request.
C23_ExactlyOneRequest ==
    /\ [](CallState({1}))
    /\ [][CallSteps]_vars

\* C23 - the remote invocation is neither blocked nor aborted by the session.
\* While a request is in flight the listener still handles INIT, UPDATE_INPUTS
\* and DESTROY; no step of the hook changes the call's params, its request or
\* its state, so the request keeps the credentials bound when executeTask was
\* called; only the settling of fetch resolves the call, once, to a structured
\* result.  A call issues at most one HTTP request: exactly one when its
\* inputs can be serialized, none when JSON.stringify throws before fetch.
C23_InFlightUntouched ==
    /\ [](CallState({0, 1}))
    /\ [][CallSteps]_vars

\* C23 witness: executeTask was called with token tok-1 bound; while the
\* request was in flight the host re-initialized with token tok-2 and the hook
\* re-rendered; the call resolved successfully and its request still carries
\* tok-1
C23_Witness ==
    /\ pc = "resolved"
    /\ result.success
    /\ fetches = 1
    /\ "Authorization" \in DOMAIN request.headers
    /\ request.headers["Authorization"] = Str(<<"Bearer ", "tok-1">>)
    /\ boundConfig.apiToken = Str(<<"tok-2">>)
    /\ Get(Spread(context), "apiToken") = Str(<<"tok-2">>)

\* C24 - outbound origin restriction.  Every envelope a step posts is a
\* READY, COMPLETE, CANCEL, RESIZE or LOG, goes to the one destination (the
\* enclosing window when embedded, the own window when standalone) and is
\* posted with the configured targetOrigin, "*" when the component passes
\* none; with a targetOrigin that is a specific origin, an envelope whose
\* destination shows a page of another origin is not delivered.
C24_OutboundOrigin ==
    \A i \in DOMAIN posted :
        /\ posted[i].type \in {T_READY, T_COMPLETE, T_CANCEL, T_RESIZE, T_LOG}
        /\ posted[i].to = (IF isEmbedded THEN "parent" ELSE "self")
        /\ posted[i].targetOrigin =
              (IF optTargetOrigin = Undefined THEN ANY_ORIGIN ELSE optTargetOrigin)
        /\ (optTargetOrigin # Undefined /\ destOrigin # optTargetOrigin) =>
              ~Delivered(posted[i])
        /\ optTargetOrigin = Undefined => Delivered(posted[i])

\* C24 witness: the component restricts targetOrigin to the host's origin, the
\* enclosing window shows another page, and complete posted its COMPLETE:
\* the envelope is not delivered
C24_Witness ==
    /\ isEmbedded
    /\ optTargetOrigin = HOST_ORIGIN
    /\ destOrigin = OTHER_ORIGIN
    /\ lastOp = "complete"
    /\ Len(posted) = 1
    /\ posted[1].type = T_COMPLETE
    /\ posted[1].targetOrigin = HOST_ORIGIN
    /\ ~Delivered(posted[1])

\* C25 - standalone loopback is quiescent.  Handling one of the hook's own
\* envelope types (READY, COMPLETE, CANCEL, RESIZE, LOG) changes no session
\* state, invokes no callback, posts nothing and does not throw; a step that
\* delivers an envelope back happens only in standalone mode, for an envelope
\* the step before posted to the own window, and is never followed by another
\* such step, so no message loop sustains itself.
C25_LoopbackQuiescent ==
    /\ [](\A t \in {T_READY, T_COMPLETE, T_CANCEL, T_RESIZE, T_LOG} :
            LET e == handleMessage(Envelope(Str(t), AnyPayload))
            IN  /\ e.session = Session
                /\ e.posted = <<>>
                /\ e.called = <<>>
                /\ ~e.raised)
    /\ [][
          /\ lastOp' = "loopback" =>
                /\ ~isEmbedded
                /\ posted # <<>>
                /\ posted[1].to = "self"
                /\ posted[1].type \in {T_READY, T_COMPLETE, T_CANCEL, T_RESIZE, T_LOG}
                /\ UNCHANGED sessionVars
                /\ posted' = <<>>
                /\ called' = <<>>
                /\ ~raised'
          /\ lastOp = "loopback" => lastOp' # "loopback"
       ]_vars

\* C25 witness: standalone, the COMPLETE of the finished Run came back to the
\* listener and was dropped: nothing posted, nothing called
C25_Witness ==
    /\ ~isEmbedded
    /\ lastOp = "loopback"
    /\ status = "completed"
    /\ runTerminals = <<T_COMPLETE>>
    /\ posted = <<>>
    /\ called = <<>>
    /\ ~raised

\* C26 - completion flag and status agree.  hasCompleted holds exactly when
\* the status is "completed" or "cancelled"; a step that makes the status
\* "completed" posts the COMPLETE of the current Run, one that makes it
\* "cancelled" posts its CANCEL, and in those statuses the Run's one terminal
\* envelope is of that type; the status is never "error" and no BRIXEL_ERROR
\* is posted.
C26_FlagStatusAgree ==
    /\ [](/\ hasCompleted <=> status \in {"completed", "cancelled"}
          /\ status = "completed" => runTerminals = <<T_COMPLETE>>
          /\ status = "cancelled" => runTerminals = <<T_CANCEL>>
          /\ status # "error"
          /\ \A i \in DOMAIN posted : posted[i].type # T_ERROR)
    /\ [][(status' # status /\ status' \in {"completed", "cancelled"}) =>
             /\ Len(posted') = 1
             /\ posted'[1].type = (IF status' = "completed" THEN T_COMPLETE ELSE T_CANCEL)
             /\ posted'[1].runId = runId'
         ]_vars

\* C27 - the emitted runId is the current Run's.  Every COMPLETE, CANCEL,
\* RESIZE and LOG envelope a step posts carries the runId the session has,
\* that of the last adopted INIT, whichever render made the function called.
C27_EmittedRunIdCurrent ==
    \A i \in DOMAIN posted :
        posted[i].type \in {T_COMPLETE, T_CANCEL, T_RESIZE, T_LOG} =>
            posted[i].runId = runId

\* C28 - the inbound runId is not checked.  An UPDATE_INPUTS or DESTROY whose
\* payload names any Run (a superseded one, one never seen) has the effect of
\* the same message naming the session's current runId, and that effect leaves
\* the session's runId as it is.
C28_InboundRunIdUnchecked ==
    /\ \A p \in UpdatePayloads :
          LET e == handleMessage(Envelope(Str(T_UPDATE_INPUTS), p))
              own == handleMessage(Envelope(Str(T_UPDATE_INPUTS), [p EXCEPT !.runId = runId]))
          IN  /\ e = own
              /\ e.op = "UPDATE_INPUTS"
              /\ e.session.runId = runId
    /\ \A p \in DestroyPayloads :
          LET e == handleMessage(Envelope(Str(T_DESTROY), p))
              own == handleMessage(Envelope(Str(T_DESTROY), [p EXCEPT !.runId = runId]))
          IN  /\ e = own
              /\ e.op = "DESTROY"
              /\ e.session.runId = runId

\* C28 witness: an update {b:2} naming a Run was applied to a session that has
\* no Run at all; the session still has no runId
C28_Witness ==
    /\ ~initSeen
    /\ lastOp = "UPDATE_INPUTS"
    /\ inputs = Obj([b |-> 2])
    /\ runId = Null

====
